---- MODULE Spec2Model ----
(***************************************************************************)
(* State-machine model of hand_canvas: the gesture engine                  *)
(* (GestureDetector, src/unnamed/part_001), the balloon manager            *)
(* (ObjectManager, src/src/objectManager.ts), the camera loop              *)
(* (HandTracker, src/src/handTracking.ts) and the user store               *)
(* (UserSession, src/unnamed/part_000; StorageManager,                     *)
(* src/src/storageManager.ts).  Each component has its own next-state      *)
(* relation and specification; the others' variables stay as constructed.  *)
(*                                                                         *)
(* Numbers.  The code works on IEEE doubles; the model works on exact      *)
(* integers.  Landmarks lie on an integer grid, time is counted in whole   *)
(* milliseconds, and the input frames are chosen so that every division    *)
(* the code performs (palm centre /3, velocity /dt, mean /n) is exact.     *)
(* Math.sqrt is never taken: sqrt(a) > sqrt(b) * k is compared as          *)
(* a > b * k^2, which is the same relation on non-negative reals.          *)
(***************************************************************************)
EXTENDS Integers, Sequences, FiniteSets, TLC

(***************************************************************************)
(* Bounds of the model.                                                    *)
(***************************************************************************)
\* Number of detect calls in the explored runs.
MaxCalls == 4

\* Number of detect calls in the runs that fill the histories (SpecLong).
MaxLongCalls == 8

\* Inter-call time steps in ms (0 = two calls within the same millisecond).
Deltas == {0, 2}

\* performance.now() at the moment the detector is constructed.
StartTimes == {1}

\* Number of createFromStroke calls in the explored runs.
MaxBalloons == 2

\* Number of clearAll calls in the explored runs.
MaxClears == 2

\* Number of HandTracker.start calls in the explored runs.
MaxStarts == 3

\* Number of user ids generated in the explored runs.
MaxUsers == 2

\* Number of balloons saved to histories in the explored runs.
MaxSaved == 2

\* Number of user-change listeners registered in the explored runs.
MaxListeners == 2

(***************************************************************************)
(* ./constants (LANDMARKS, GESTURE): the file is not part of the sources   *)
(* at hand; indices follow the role enumeration of the data model, the     *)
(* thresholds are configuration values in grid units.                      *)
(***************************************************************************)
WRIST == 0
THUMB_IP == 3
THUMB_TIP == 4
INDEX_MCP == 5
INDEX_PIP == 6
INDEX_TIP == 8
MIDDLE_MCP == 9
MIDDLE_PIP == 10
MIDDLE_TIP == 12
RING_MCP == 13
RING_PIP == 14
RING_TIP == 16
PINKY_MCP == 17
PINKY_PIP == 18
PINKY_TIP == 20

\* GESTURE.SWIPE_VELOCITY, grid units per second.
SWIPE_VELOCITY == 3000
\* GESTURE.PINCH_THRESHOLD, grid units.
PINCH_THRESHOLD == 2
\* GESTURE.PALM_STABILITY_THRESHOLD, grid units.
PALM_STABILITY_THRESHOLD == 2
\* GESTURE.FINGER_CURL_THRESHOLD = FINGER_CURL_NUM / FINGER_CURL_DEN (> 1.0).
FINGER_CURL_NUM == 11
FINGER_CURL_DEN == 10

(***************************************************************************)
(* Types (./types): Point2D is <<x, y>>, HandLandmarks.landmarks is a      *)
(* sequence of 21 points (landmark i is element i + 1), null is NoHand.    *)
(***************************************************************************)
GestureType == {"none", "draw", "pinch", "fist", "palm", "swipe"}

NoHand == <<>>

Zero == <<0, 0>>

At(lm, idx) == lm[idx + 1]

Abs(n) == IF n < 0 THEN -n ELSE n

(***************************************************************************)
(* Input frames: four hand poses; the open hand is placed at a few offsets. *)
(* Landmark order: wrist, thumb cmc/mcp/ip/tip, then mcp/pip/dip/tip of    *)
(* index, middle, ring, pinky.                                             *)
(***************************************************************************)
OpenHand ==
  << <<0, 0>>,
     <<-2, 2>>, <<-4, 4>>, <<-6, 6>>, <<-8, 8>>,
     <<-3, 9>>, <<-3, 12>>, <<-3, 14>>, <<-3, 17>>,
     <<-1, 10>>, <<-1, 13>>, <<-1, 16>>, <<-1, 19>>,
     <<1, 10>>, <<1, 13>>, <<1, 16>>, <<1, 18>>,
     <<3, 9>>, <<3, 11>>, <<3, 13>>, <<3, 15>> >>

FistHand ==
  << <<0, 0>>,
     <<-2, 2>>, <<-4, 4>>, <<-6, 6>>, <<-4, 8>>,
     <<-3, 9>>, <<-3, 12>>, <<-2, 12>>, <<-3, 10>>,
     <<-1, 10>>, <<-1, 13>>, <<0, 13>>, <<-1, 11>>,
     <<1, 10>>, <<1, 13>>, <<2, 13>>, <<1, 11>>,
     <<3, 9>>, <<3, 11>>, <<4, 11>>, <<3, 10>> >>

PointHand ==
  << <<0, 0>>,
     <<-2, 2>>, <<-4, 4>>, <<-6, 6>>, <<-4, 8>>,
     <<-3, 9>>, <<-3, 12>>, <<-3, 14>>, <<-3, 17>>,
     <<-1, 10>>, <<-1, 13>>, <<0, 13>>, <<-1, 11>>,
     <<1, 10>>, <<1, 13>>, <<2, 13>>, <<1, 11>>,
     <<3, 9>>, <<3, 11>>, <<4, 11>>, <<3, 10>> >>

\* A closed hand with the thumb tip laid on the index tip.
PinchHand ==
  << <<0, 0>>,
     <<-2, 2>>, <<-4, 4>>, <<-6, 6>>, <<-4, 10>>,
     <<-3, 9>>, <<-3, 12>>, <<-2, 12>>, <<-3, 10>>,
     <<-1, 10>>, <<-1, 13>>, <<0, 13>>, <<-1, 11>>,
     <<1, 10>>, <<1, 13>>, <<2, 13>>, <<1, 11>>,
     <<3, 9>>, <<3, 11>>, <<4, 11>>, <<3, 10>> >>

\* The poses other than the open hand are shown at rest.
Poses == {FistHand, PointHand, PinchHand}

\* Where the open hand is placed: at rest, one unit aside (inside the
\* stability radius), far aside and far up (a fast move within one frame
\* interval).
Offsets == {<<0, 0>>, <<1, 0>>, <<12, 0>>, <<0, 12>>}

Shift(lm, d) == [i \in 1..Len(lm) |-> <<lm[i][1] + d[1], lm[i][2] + d[2]>>]

Frames == {Shift(OpenHand, d) : d \in Offsets} \cup Poses

(***************************************************************************)
(* State of one GestureDetector, the clock, and the record of what the     *)
(* last calls returned.                                                    *)
(***************************************************************************)
VARIABLES
  clock,            \* last value read from performance.now()
  lastLandmarks,    \* this.lastLandmarks
  lastTime,         \* this.lastTime
  gestureStartTime, \* this.gestureStartTime
  currentGesture,   \* this.currentGesture
  previousGesture,  \* this.previousGesture
  palmHistory,      \* this.palmHistory
  velocityHistory,  \* this.velocityHistory
  calls,            \* number of detect calls made so far
  out,              \* GestureState returned by the last call
  prevOut,          \* GestureState returned by the call before it
  sawHand,          \* TRUE iff the last call was given a hand frame
  runStart,         \* time of the first call of the current unbroken run
                    \* of calls returning the same current label
  runByChange,      \* TRUE iff that run began with a label-changing call
  recent,           \* the last three calls, newest last
  pre               \* what the last call found on entry: whether a last
                    \* frame was held and its palm centre, this.lastTime,
                    \* the dt it computed, this.velocityHistory

detectorVars == <<clock, lastLandmarks, lastTime, gestureStartTime, currentGesture,
          previousGesture, palmHistory, velocityHistory, calls, out, prevOut,
          sawHand, runStart, runByChange, recent, pre>>

(***************************************************************************)
(* ObjectManager (src/src/objectManager.ts).  A balloon is named by the    *)
(* number in its id balloon_<n>.  Of the gsap tweens on a mesh scale only  *)
(* those with an onComplete callback are kept (inflate, fade, pop and the  *)
(* shrink that follows pop); the others end without any effect.            *)
(***************************************************************************)
VARIABLES
  objects,          \* this.objects, in list order
  idCounter,        \* this.idCounter
  onBalloonCreatedCallback, \* TRUE iff a callback is registered
  sceneMeshes,      \* balloons whose mesh is in the scene
  disposed,         \* per balloon, how often its geometry was disposed
  isGrabbed,        \* balloons with isGrabbed = true
  inflateDelays,    \* balloons whose 0.3 s delayedCall has not fired yet
  scaleTweens,      \* live tweens on mesh.scale: [obj, kind, clear], clear
                    \* the clearAll call awaiting the removal (0 = none)
  created,          \* balloons whose createFromStroke promise resolved
  callbackCount,    \* per balloon, how often the callback was invoked
  clears,           \* the clearAll calls: [snapshot, next, waiting, done]
  removed,          \* balloons that removeObject took out of the list
  lastSlot          \* last removal made by a clearAll callback: [obj,
                    \* clear, index], the balloon taken, the number of the
                    \* clearAll call (0 = no removal yet) and the index of
                    \* its delayed call

objectVars == <<objects, idCounter, onBalloonCreatedCallback, sceneMeshes,
                disposed, isGrabbed, inflateDelays, scaleTweens, created,
                callbackCount, clears, removed, lastSlot>>

BalloonIds == 0..(MaxBalloons - 1)

(***************************************************************************)
(* HandTracker (src/src/handTracking.ts).  Every start call is numbered;   *)
(* the call, and the processFrame loop it creates, is at one of            *)
(*   "none"      not called yet                                            *)
(*   "camera"    awaiting getUserMedia                                     *)
(*   "play"      awaiting videoElement.play()                              *)
(*   "sending"   its loop awaits hands.send                                *)
(*   "scheduled" its loop has a requestAnimationFrame pending              *)
(*   "returned"  returned at once because isRunning was true               *)
(*   "failed"    getUserMedia or play rejected                             *)
(*   "ended"     its loop saw isRunning false, or its frame was cancelled  *)
(***************************************************************************)
VARIABLES
  callback,         \* TRUE iff this.callback is set
  isRunning,        \* this.isRunning
  animationId,      \* this.animationId: the start call whose loop made the
                    \* last requestAnimationFrame, 0 for null
  srcObject,        \* videoElement.srcObject: the start call whose stream
                    \* it is, 0 for none
  stoppedStreams,   \* streams whose tracks were stopped
  starts,           \* number of start calls made
  pc,               \* per start call, where it is
  lastCall          \* "none", "start" or "stop": the last call made

trackerVars == <<callback, isRunning, animationId, srcObject, stoppedStreams,
                 starts, pc, lastCall>>

StartIds == 1..MaxStarts

(***************************************************************************)
(* UserSession (src/unnamed/part_000) over StorageManager                  *)
(* (src/src/storageManager.ts).  A string is a sequence of characters; a   *)
(* generated user or balloon id is the number of its generation (the code  *)
(* draws a timestamp and seven random characters); createdAt and           *)
(* lastModified are left out.  localStorage holds JSON text, written here  *)
(* as tuples: a user as <<id, name>>, a history as <<userId, balloons>>,   *)
(* a missing item as <<>>.                                                 *)
(***************************************************************************)
VARIABLES
  usersItem,        \* localStorage item hand_canvas_users
  currentUserItem,  \* localStorage item hand_canvas_current_user
  historyItems,     \* localStorage items hand_canvas_history_<key>
  currentUser,      \* UserSession.currentUser
  onUserChangeCallbacks, \* number of registered listeners
  nextUserId,       \* number of the next generated user id
  nextBalloonId,    \* number of the next generated balloon id
  notified,         \* per listener, the users it was passed in the last call
  lastOp,           \* name of the last call made
  onlySetUser       \* TRUE iff every call so far was setUser

sessionVars == <<usersItem, currentUserItem, historyItems, currentUser,
                 onUserChangeCallbacks, nextUserId, nextBalloonId, notified,
                 lastOp, onlySetUser>>

\* The id of a user created in another browser, known from an import only.
ForeignId == MaxUsers + 1

HistoryKeys == 1..ForeignId

Null == <<>>

NoUser == [id |-> 0, name |-> <<>>]

\* The names typed in: a name, the same in upper case, the same after a
\* blank, and another name.
Names == {<<"a">>, <<"A">>, <<" ", "a">>, <<"b">>}

vars == <<detectorVars, objectVars, trackerVars, sessionVars>>

\* The variables of the other components, which a step of one component
\* leaves alone.
notDetectorVars == <<objectVars, trackerVars, sessionVars>>

notObjectVars == <<detectorVars, trackerVars, sessionVars>>

notTrackerVars == <<detectorVars, objectVars, sessionVars>>

notSessionVars == <<detectorVars, objectVars, trackerVars>>

(***************************************************************************)
(* Geometry helpers.                                                       *)
(***************************************************************************)
\* distance(p1, p2) squared: dx * dx + dy * dy, before Math.sqrt.
distanceSq(p1, p2) ==
  LET dx == p1[1] - p2[1]
      dy == p1[2] - p2[2]
  IN  dx * dx + dy * dy

getPalmCenter(landmarks) ==
  LET wrist    == At(landmarks, WRIST)
      indexMcp == At(landmarks, INDEX_MCP)
      pinkyMcp == At(landmarks, PINKY_MCP)
  IN  << (wrist[1] + indexMcp[1] + pinkyMcp[1]) \div 3,
         (wrist[2] + indexMcp[2] + pinkyMcp[2]) \div 3 >>

\* tipToPalm > pipToPalm * GESTURE.FINGER_CURL_THRESHOLD, on the squares.
isFingerExtended(landmarks, tipIdx, pipIdx, mcpIdx) ==
  LET tipToPalmSq == distanceSq(At(landmarks, tipIdx), At(landmarks, WRIST))
      pipToPalmSq == distanceSq(At(landmarks, pipIdx), At(landmarks, WRIST))
  IN  tipToPalmSq * FINGER_CURL_DEN * FINGER_CURL_DEN
        > pipToPalmSq * FINGER_CURL_NUM * FINGER_CURL_NUM

\* distFromIndex > thumbLength * 1.5, on the squares (1.5^2 = 9/4).
isThumbExtended(landmarks) ==
  LET distFromIndexSq == distanceSq(At(landmarks, THUMB_TIP), At(landmarks, INDEX_MCP))
      thumbLengthSq   == distanceSq(At(landmarks, THUMB_TIP), At(landmarks, THUMB_IP))
  IN  4 * distFromIndexSq > 9 * thumbLengthSq

indexExtended(landmarks)  == isFingerExtended(landmarks, INDEX_TIP, INDEX_PIP, INDEX_MCP)
middleExtended(landmarks) == isFingerExtended(landmarks, MIDDLE_TIP, MIDDLE_PIP, MIDDLE_MCP)
ringExtended(landmarks)   == isFingerExtended(landmarks, RING_TIP, RING_PIP, RING_MCP)
pinkyExtended(landmarks)  == isFingerExtended(landmarks, PINKY_TIP, PINKY_PIP, PINKY_MCP)

\* isPointingIndex testing the index finger only.
isPointingIndex_IndexOnly(landmarks) ==
  indexExtended(landmarks)

isPointingIndex(landmarks) ==
  /\ indexExtended(landmarks)
  /\ ~middleExtended(landmarks)
  /\ ~ringExtended(landmarks)
  /\ ~pinkyExtended(landmarks)

isOpenPalm(landmarks) ==
  /\ indexExtended(landmarks)
  /\ middleExtended(landmarks)
  /\ ringExtended(landmarks)
  /\ pinkyExtended(landmarks)
  /\ isThumbExtended(landmarks)

isFist(landmarks) ==
  /\ ~indexExtended(landmarks)
  /\ ~middleExtended(landmarks)
  /\ ~ringExtended(landmarks)
  /\ ~pinkyExtended(landmarks)
  /\ ~isThumbExtended(landmarks)

\* this.palmHistory.slice(-3)
LastThree(h) == IF Len(h) <= 3 THEN h ELSE SubSeq(h, Len(h) - 2, Len(h))

\* isPalmStable comparing against the oldest sample of the whole history
\* (the slice(-3) forgotten).
isPalmStable_NoSlice(history) ==
  IF Len(history) < 3 THEN FALSE
  ELSE \A i \in 1..Len(history) :
         ~(distanceSq(history[i], history[1])
             > PALM_STABILITY_THRESHOLD * PALM_STABILITY_THRESHOLD)

\* isPalmStable looking at the last two samples only (slice(-2)).
isPalmStable_SliceTwo(history) ==
  IF Len(history) < 3 THEN FALSE
  ELSE ~(distanceSq(history[Len(history)], history[Len(history) - 1])
           > PALM_STABILITY_THRESHOLD * PALM_STABILITY_THRESHOLD)

isPalmStable(history) ==
  IF Len(history) < 3 THEN FALSE
  ELSE LET recent3 == LastThree(history)
           first   == recent3[1]
       IN  \A i \in 1..Len(recent3) :
             ~(distanceSq(recent3[i], first)
                 > PALM_STABILITY_THRESHOLD * PALM_STABILITY_THRESHOLD)

(***************************************************************************)
(* calculateVelocity(landmarks, dt).  dt is passed in milliseconds; the    *)
(* code's dt is dtMs / 1000 seconds, so delta / dt = delta * 1000 / dtMs.  *)
(* Returns the velocity and the new this.velocityHistory.                  *)
(***************************************************************************)
SumX(h) == IF Len(h) = 0 THEN 0 ELSE IF Len(h) = 1 THEN h[1][1] ELSE h[1][1] + h[2][1]

SumY(h) == IF Len(h) = 0 THEN 0 ELSE IF Len(h) = 1 THEN h[1][2] ELSE h[1][2] + h[2][2]

\* calculateVelocity that drops the newest sample when the history is full
\* (pop where the code has shift).
calculateVelocity_Pop(landmarks, dtMs, last, history) ==
  IF last = NoHand \/ dtMs = 0
  THEN [velocity |-> Zero, history |-> history]
  ELSE LET currentPalm == getPalmCenter(landmarks)
           lastPalm    == getPalmCenter(last)
           velocity    == << ((currentPalm[1] - lastPalm[1]) * 1000) \div dtMs,
                             ((currentPalm[2] - lastPalm[2]) * 1000) \div dtMs >>
           pushed      == Append(history, velocity)
           kept        == IF Len(pushed) > 2 THEN SubSeq(pushed, 1, 2) ELSE pushed
       IN  [velocity |-> << SumX(kept) \div Len(kept), SumY(kept) \div Len(kept) >>,
            history  |-> kept]

\* calculateVelocity that guards the division with a minimal dt of 1 ms
\* instead of returning early when dt is 0.
calculateVelocity_MinDt(landmarks, dtMs, last, history) ==
  IF last = NoHand
  THEN [velocity |-> Zero, history |-> history]
  ELSE LET dtUsed      == IF dtMs = 0 THEN 1 ELSE dtMs
           currentPalm == getPalmCenter(landmarks)
           lastPalm    == getPalmCenter(last)
           velocity    == << ((currentPalm[1] - lastPalm[1]) * 1000) \div dtUsed,
                             ((currentPalm[2] - lastPalm[2]) * 1000) \div dtUsed >>
           pushed      == Append(history, velocity)
           kept        == IF Len(pushed) > 2 THEN Tail(pushed) ELSE pushed
       IN  [velocity |-> << SumX(kept) \div Len(kept), SumY(kept) \div Len(kept) >>,
            history  |-> kept]

calculateVelocity(landmarks, dtMs, last, history) ==
  IF last = NoHand \/ dtMs = 0
  THEN [velocity |-> Zero, history |-> history]
  ELSE LET currentPalm == getPalmCenter(landmarks)
           lastPalm    == getPalmCenter(last)
           velocity    == << ((currentPalm[1] - lastPalm[1]) * 1000) \div dtMs,
                             ((currentPalm[2] - lastPalm[2]) * 1000) \div dtMs >>
           pushed      == Append(history, velocity)
           kept        == IF Len(pushed) > 2 THEN Tail(pushed) ELSE pushed
       IN  [velocity |-> << SumX(kept) \div Len(kept), SumY(kept) \div Len(kept) >>,
            history  |-> kept]

(***************************************************************************)
(* detectGestureType(landmarks, velocity).  Returns the label and the new  *)
(* this.palmHistory.                                                       *)
(***************************************************************************)
\* speed > GESTURE.SWIPE_VELOCITY && |velocity.x| > |velocity.y| * 1.5
SwipeCheck(velocity) ==
  /\ velocity[1] * velocity[1] + velocity[2] * velocity[2]
       > SWIPE_VELOCITY * SWIPE_VELOCITY
  /\ 2 * Abs(velocity[1]) > 3 * Abs(velocity[2])

\* The pinch check measuring to the index PIP joint instead of the index tip.
PinchCheck_IndexPip(landmarks) ==
  distanceSq(At(landmarks, THUMB_TIP), At(landmarks, INDEX_PIP))
    < PINCH_THRESHOLD * PINCH_THRESHOLD

\* pinchDistance < GESTURE.PINCH_THRESHOLD
PinchCheck(landmarks) ==
  distanceSq(At(landmarks, THUMB_TIP), At(landmarks, INDEX_TIP))
    < PINCH_THRESHOLD * PINCH_THRESHOLD

\* The push of the open-palm branch without the shift.
PushPalm_NoShift(history, landmarks) ==
  Append(history, getPalmCenter(landmarks))

\* The push / shift of the open-palm branch.
PushPalm(history, landmarks) ==
  LET pushed == Append(history, getPalmCenter(landmarks))
  IN  IF Len(pushed) > 6 THEN Tail(pushed) ELSE pushed

\* The rules tried once the swipe check has failed (pinch, fist, palm,
\* draw, none), with the palm-history bookkeeping of the open-palm branch.
AfterSwipe(landmarks, history) ==
  IF PinchCheck(landmarks) THEN [gesture |-> "pinch", history |-> history]
  ELSE IF isFist(landmarks) THEN [gesture |-> "fist", history |-> history]
  ELSE LET h == IF isOpenPalm(landmarks) THEN PushPalm(history, landmarks) ELSE <<>>
       IN  IF isOpenPalm(landmarks) /\ Len(h) >= 3 /\ isPalmStable(h)
           THEN [gesture |-> "palm", history |-> h]
           ELSE IF isPointingIndex(landmarks)
                THEN [gesture |-> "draw", history |-> h]
                ELSE [gesture |-> "none", history |-> h]

\* detectGestureType with the fist rule tried before the pinch rule.
detectGestureType_FistFirst(landmarks, velocity, history) ==
  IF SwipeCheck(velocity) THEN [gesture |-> "swipe", history |-> history]
  ELSE IF isFist(landmarks) THEN [gesture |-> "fist", history |-> history]
  ELSE AfterSwipe(landmarks, history)

\* detectGestureType with the pinch rule tried before the swipe rule.
detectGestureType_PinchFirst(landmarks, velocity, history) ==
  IF PinchCheck(landmarks) THEN [gesture |-> "pinch", history |-> history]
  ELSE IF SwipeCheck(velocity) THEN [gesture |-> "swipe", history |-> history]
  ELSE AfterSwipe(landmarks, history)

detectGestureType(landmarks, velocity, history) ==
  IF SwipeCheck(velocity) THEN [gesture |-> "swipe", history |-> history]
  ELSE AfterSwipe(landmarks, history)

createState(gesture, previous, velocity, duration) ==
  [current |-> gesture, previous |-> previous, duration |-> duration,
   velocity |-> velocity, confidence |-> 1]

(***************************************************************************)
(* ObjectManager after construction (objectManager.ts:113-131).            *)
(***************************************************************************)
ObjectManagerInit ==
  /\ objects = <<>>
  /\ idCounter = 0
  /\ onBalloonCreatedCallback = FALSE
  /\ sceneMeshes = {}
  /\ disposed = [b \in BalloonIds |-> 0]
  /\ isGrabbed = {}
  /\ inflateDelays = {}
  /\ scaleTweens = {}
  /\ created = {}
  /\ callbackCount = [b \in BalloonIds |-> 0]
  /\ clears = <<>>
  /\ removed = {}
  /\ lastSlot = [obj |-> 0, clear |-> 0, index |-> 0]

(***************************************************************************)
(* HandTracker after construction (handTracking.ts:20-50).                 *)
(***************************************************************************)
HandTrackerInit ==
  /\ callback = FALSE
  /\ isRunning = FALSE
  /\ animationId = 0
  /\ srcObject = 0
  /\ stoppedStreams = {}
  /\ starts = 0
  /\ pc = [s \in StartIds |-> "none"]
  /\ lastCall = "none"

(***************************************************************************)
(* StorageManager: JSON text and the reads and writes of localStorage.     *)
(***************************************************************************)
\* JSON.stringify and JSON.parse of a User.
stringifyUser(user) == <<user.id, user.name>>

parseUser(json) == [id |-> json[1], name |-> json[2]]

\* JSON.stringify and JSON.parse of a User[].
stringifyUsers(users) == [i \in 1..Len(users) |-> stringifyUser(users[i])]

parseUsers(json) == [i \in 1..Len(json) |-> parseUser(json[i])]

\* JSON.stringify and JSON.parse of a UserHistory.
stringifyHistory(history) == <<history.userId, history.balloons>>

parseHistory(json) == [userId |-> json[1], balloons |-> json[2]]

\* getAllUsers().
getAllUsers(item) == IF item = Null THEN <<>> ELSE parseUsers(item)

\* users.findIndex(u => u.id === id), 1-based, 0 when absent.
findIndex(users, id) ==
  IF \E i \in 1..Len(users) : users[i].id = id
    THEN CHOOSE i \in 1..Len(users) :
           users[i].id = id /\ \A j \in 1..(i - 1) : users[j].id # id
    ELSE 0

\* saveUser with every user pushed, found or not.
saveUser_AlwaysPush(item, user) ==
  stringifyUsers(Append(getAllUsers(item), user))

\* saveUser(user): the new value of the users item.
saveUser(item, user) ==
  stringifyUsers(
    IF findIndex(getAllUsers(item), user.id) # 0
      THEN [getAllUsers(item) EXCEPT ![findIndex(getAllUsers(item), user.id)] = user]
      ELSE Append(getAllUsers(item), user))

\* getUserById(userId).
getUserById(item, userId) ==
  IF findIndex(getAllUsers(item), userId) # 0
    THEN getAllUsers(item)[findIndex(getAllUsers(item), userId)]
    ELSE NoUser

\* String.prototype.toLowerCase on the alphabet of Names.
toLowerCase(str) ==
  [i \in 1..Len(str) |-> IF str[i] = "A" THEN "a"
                        ELSE IF str[i] = "B" THEN "b" ELSE str[i]]

RECURSIVE trimStart(_)
trimStart(str) ==
  IF Len(str) > 0 /\ str[1] = " " THEN trimStart(Tail(str)) ELSE str

RECURSIVE trimEnd(_)
trimEnd(str) ==
  IF Len(str) > 0 /\ str[Len(str)] = " "
    THEN trimEnd(SubSeq(str, 1, Len(str) - 1))
    ELSE str

\* String.prototype.trim.
trim(str) == trimEnd(trimStart(str))

\* getUserByName(name).
getUserByName(item, name) ==
  IF \E i \in 1..Len(getAllUsers(item)) :
       toLowerCase(getAllUsers(item)[i].name) = toLowerCase(name)
    THEN getAllUsers(item)[
           CHOOSE i \in 1..Len(getAllUsers(item)) :
             /\ toLowerCase(getAllUsers(item)[i].name) = toLowerCase(name)
             /\ \A j \in 1..(i - 1) :
                  toLowerCase(getAllUsers(item)[j].name) # toLowerCase(name)]
    ELSE NoUser

\* getCurrentUser().
getCurrentUser(item) == IF item = Null THEN NoUser ELSE parseUser(item)

\* setCurrentUser that leaves the item alone when passed null.
setCurrentUser_IgnoreNull(item, user) ==
  IF user # NoUser THEN stringifyUser(user) ELSE item

\* setCurrentUser(user): the new value of the current-user item.
setCurrentUser(item, user) ==
  IF user # NoUser THEN stringifyUser(user) ELSE Null

\* getUserHistory(userId).
getUserHistory(items, userId) ==
  IF items[userId] = Null
    THEN [userId |-> userId, balloons |-> <<>>]
    ELSE parseHistory(items[userId])

\* saveUserHistory(history): the item is keyed by history.userId.
saveUserHistory(items, history) ==
  [items EXCEPT ![history.userId] = stringifyHistory(history)]

\* addBalloonToHistory(userId, balloon).
addBalloonToHistory(items, userId, balloon) ==
  saveUserHistory(items,
    [getUserHistory(items, userId) EXCEPT !.balloons = Append(@, balloon)])

\* clearUserHistory(userId).
clearUserHistory(items, userId) ==
  saveUserHistory(items,
    [getUserHistory(items, userId) EXCEPT !.balloons = <<>>])

(***************************************************************************)
(* UserSession constructed on an empty localStorage (part_000:10-13).      *)
(***************************************************************************)
UserSessionInit ==
  /\ usersItem = Null
  /\ currentUserItem = Null
  /\ historyItems = [k \in HistoryKeys |-> Null]
  /\ currentUser = getCurrentUser(Null)
  /\ onUserChangeCallbacks = 0
  /\ nextUserId = 1
  /\ nextBalloonId = 1
  /\ notified = <<>>
  /\ lastOp = "none"
  /\ onlySetUser = TRUE

(***************************************************************************)
(* Initial state: every component freshly constructed, no call made yet.   *)
(***************************************************************************)
Init ==
  /\ clock \in StartTimes
  /\ lastLandmarks = NoHand
  /\ lastTime = 0
  /\ gestureStartTime = 0
  /\ currentGesture = "none"
  /\ previousGesture = "none"
  /\ palmHistory = <<>>
  /\ velocityHistory = <<>>
  /\ calls = 0
  /\ out = createState("none", "none", Zero, 0)
  /\ prevOut = createState("none", "none", Zero, 0)
  /\ sawHand = FALSE
  /\ runStart = 0
  /\ runByChange = FALSE
  /\ recent = <<>>
  /\ pre = [had |-> FALSE, palm |-> Zero, lastTime |-> 0, dt |-> 0, vh |-> <<>>]
  /\ ObjectManagerInit
  /\ HandTrackerInit
  /\ UserSessionInit

(***************************************************************************)
(* Bookkeeping of what the calls returned (not program state).             *)
(***************************************************************************)
Record(result, now, entry, dtMs) ==
  /\ calls' = calls + 1
  /\ pre' = [had      |-> lastLandmarks # NoHand,
             palm     |-> IF lastLandmarks # NoHand
                          THEN getPalmCenter(lastLandmarks) ELSE Zero,
             lastTime |-> lastTime,
             dt       |-> dtMs,
             vh       |-> velocityHistory]
  /\ prevOut' = out
  /\ out' = result
  /\ runStart' = IF calls = 0 \/ result.current # out.current THEN now ELSE runStart
  /\ runByChange' = IF calls = 0 THEN FALSE
                    ELSE IF result.current # out.current THEN TRUE ELSE runByChange
  /\ recent' = LastThree(Append(recent, entry))

(***************************************************************************)
(* const dt = this.lastTime > 0 ? (now - this.lastTime) / 1000 : 0, in ms. *)
(***************************************************************************)
\* The same with the operands of the subtraction swapped.
ElapsedMs_Swapped(now, last) == IF last > 0 THEN last - now ELSE 0

ElapsedMs(now, last) == IF last > 0 THEN now - last ELSE 0

(***************************************************************************)
(* detect(null): the early return of the no-hand branch.                   *)
(***************************************************************************)
AbsentCall(delta) ==
  \E now \in {clock + delta} :
  \E dtMs \in {ElapsedMs(now, lastTime)} :
    /\ clock' = now
    /\ lastTime' = now
    /\ sawHand' = FALSE
    /\ Record(createState("none", previousGesture, Zero, 0), now,
              [hand |-> FALSE, open |-> FALSE, clean |-> TRUE, c |-> Zero], dtMs)
    /\ UNCHANGED <<lastLandmarks, gestureStartTime, currentGesture,
                   previousGesture, palmHistory, velocityHistory>>

DetectAbsent(delta) ==
  /\ calls < MaxCalls
  /\ AbsentCall(delta)
  /\ UNCHANGED notDetectorVars

(***************************************************************************)
(* detect(landmarks) with a hand frame.                                    *)
(***************************************************************************)
HandCall(landmarks, delta) ==
  \E now \in {clock + delta} :
  \E dtMs \in {ElapsedMs(now, lastTime)} :
  \E vel \in {calculateVelocity(landmarks, dtMs, lastLandmarks, velocityHistory)} :
  \E det \in {detectGestureType(landmarks, vel.velocity, palmHistory)} :
  \E changed \in {det.gesture # currentGesture} :
  \E start \in {IF changed THEN now ELSE gestureStartTime} :
  \E previous \in {IF changed THEN currentGesture ELSE previousGesture} :
  \E open \in {isOpenPalm(landmarks)} :
    /\ clock' = now
    /\ lastTime' = now
    /\ velocityHistory' = vel.history
    /\ palmHistory' = det.history
    /\ previousGesture' = previous
    /\ currentGesture' = det.gesture
    /\ gestureStartTime' = start
    /\ lastLandmarks' = landmarks
    /\ sawHand' = TRUE
    /\ Record(createState(det.gesture, previous, vel.velocity, now - start), now,
              [hand  |-> TRUE,
               open  |-> open,
               clean |-> ~SwipeCheck(vel.velocity) /\ ~PinchCheck(landmarks),
               c     |-> IF open THEN getPalmCenter(landmarks) ELSE Zero], dtMs)

DetectHand(landmarks, delta) ==
  /\ calls < MaxCalls
  /\ HandCall(landmarks, delta)
  /\ UNCHANGED notDetectorVars

Next ==
  \/ \E delta \in Deltas : DetectAbsent(delta)
  \/ \E landmarks \in Frames, delta \in Deltas : DetectHand(landmarks, delta)

Spec == Init /\ [][Next]_vars

(***************************************************************************)
(* Longer runs on fewer inputs, enough calls to fill both histories: an    *)
(* open hand at rest or one unit aside, or no hand, every 2 ms.            *)
(***************************************************************************)
LongFrames == {Shift(OpenHand, <<0, 0>>), Shift(OpenHand, <<1, 0>>)}

LongDeltas == {2}

LongAbsent(delta) ==
  /\ calls < MaxLongCalls
  /\ AbsentCall(delta)
  /\ UNCHANGED notDetectorVars

LongHand(landmarks, delta) ==
  /\ calls < MaxLongCalls
  /\ HandCall(landmarks, delta)
  /\ UNCHANGED notDetectorVars

NextLong ==
  \/ \E delta \in LongDeltas : LongAbsent(delta)
  \/ \E landmarks \in LongFrames, delta \in LongDeltas : LongHand(landmarks, delta)

SpecLong == Init /\ [][NextLong]_vars

(***************************************************************************)
(* ObjectManager.  One action per call and per timer or tween callback.    *)
(* gsap fires the delayed calls of one clearAll in index order (delays     *)
(* 0, 0.1, 0.2, ...); the order of everything else is left open.           *)
(***************************************************************************)
InList(obj, list) == \E i \in 1..Len(list) : list[i] = obj

\* this.objects.indexOf(obj), 1-based, 0 when absent.
indexOf(list, obj) ==
  IF InList(obj, list)
    THEN CHOOSE i \in 1..Len(list) :
           list[i] = obj /\ \A j \in 1..(i - 1) : list[j] # obj
    ELSE 0

\* this.objects.splice(index, 1).
splice(list, index) ==
  [i \in 1..(Len(list) - 1) |-> IF i < index THEN list[i] ELSE list[i + 1]]

\* A clearAll call all of whose promises have resolved.
AllResolved(c) == c.next > Len(c.snapshot) /\ c.waiting = {}

\* The line after await Promise.all: every clearAll call whose last
\* promise has just resolved sets this.objects = [].
Settle(list, cs) ==
  IF \E k \in 1..Len(cs) : ~cs[k].done /\ AllResolved(cs[k])
    THEN [objects |-> <<>>,
          clears  |-> [k \in 1..Len(cs) |->
                         [cs[k] EXCEPT !.done = cs[k].done \/ AllResolved(cs[k])]]]
    ELSE [objects |-> list, clears |-> cs]

\* onBalloonCreated(callback).
onBalloonCreated ==
  /\ ~onBalloonCreatedCallback
  /\ onBalloonCreatedCallback' = TRUE
  /\ UNCHANGED notObjectVars
  /\ UNCHANGED <<objects, idCounter, sceneMeshes, disposed, isGrabbed,
                 inflateDelays, scaleTweens, created, callbackCount, clears,
                 removed, lastSlot>>

\* createFromStroke(stroke) up to its await: the mesh is added to the scene,
\* the balloon to the list, and the inflation delay is started.
createFromStroke ==
  /\ idCounter < MaxBalloons
  /\ idCounter' = idCounter + 1
  /\ sceneMeshes' = sceneMeshes \cup {idCounter}
  /\ objects' = Append(objects, idCounter)
  /\ inflateDelays' = inflateDelays \cup {idCounter}
  /\ UNCHANGED notObjectVars
  /\ UNCHANGED <<onBalloonCreatedCallback, disposed, isGrabbed, scaleTweens,
                 created, callbackCount, clears, removed, lastSlot>>

\* The callback of gsap.delayedCall(0.3, ...) in animateInflation: the
\* inflate tween starts.
inflationDelayElapsed(obj) ==
  /\ obj \in inflateDelays
  /\ inflateDelays' = inflateDelays \ {obj}
  /\ scaleTweens' = scaleTweens \cup {[obj |-> obj, kind |-> "inflate", clear |-> 0]}
  /\ UNCHANGED notObjectVars
  /\ UNCHANGED <<objects, idCounter, onBalloonCreatedCallback, sceneMeshes,
                 disposed, isGrabbed, created, callbackCount, clears, removed,
                 lastSlot>>

\* onComplete of the inflate tween: animateInflation resolves and
\* createFromStroke runs to its end.
inflationComplete(obj) ==
  /\ [obj |-> obj, kind |-> "inflate", clear |-> 0] \in scaleTweens
  /\ scaleTweens' = scaleTweens \ {[obj |-> obj, kind |-> "inflate", clear |-> 0]}
  /\ created' = created \cup {obj}
  /\ callbackCount' =
       IF onBalloonCreatedCallback
         THEN [callbackCount EXCEPT ![obj] = @ + 1]
         ELSE callbackCount
  /\ UNCHANGED notObjectVars
  /\ UNCHANGED <<objects, idCounter, onBalloonCreatedCallback, sceneMeshes,
                 disposed, isGrabbed, inflateDelays, clears, removed, lastSlot>>

\* grabObject(obj) on a managed balloon: every tween on its scale is killed.
grabObject(obj) ==
  /\ InList(obj, objects)
  /\ obj \notin isGrabbed
  /\ isGrabbed' = isGrabbed \cup {obj}
  /\ scaleTweens' = {t \in scaleTweens : t.obj # obj}
  /\ UNCHANGED notObjectVars
  /\ UNCHANGED <<objects, idCounter, onBalloonCreatedCallback, sceneMeshes,
                 disposed, inflateDelays, created, callbackCount, clears,
                 removed, lastSlot>>

\* releaseObject(obj) on a managed balloon.
releaseObject(obj) ==
  /\ InList(obj, objects)
  /\ obj \in isGrabbed
  /\ isGrabbed' = isGrabbed \ {obj}
  /\ UNCHANGED notObjectVars
  /\ UNCHANGED <<objects, idCounter, onBalloonCreatedCallback, sceneMeshes,
                 disposed, inflateDelays, scaleTweens, created, callbackCount,
                 clears, removed, lastSlot>>

\* The first tween removeObject starts on the balloon's scale.
RemovalTween(obj, fade, clear) ==
  [obj |-> obj, kind |-> IF fade THEN "fade" ELSE "pop", clear |-> clear]

\* removeObject(obj, fade) called from outside on a balloon that is in the
\* list (on any other it returns at once and changes nothing).
removeObject(obj, fade) ==
  /\ indexOf(objects, obj) # 0
  /\ objects' = splice(objects, indexOf(objects, obj))
  /\ scaleTweens' = scaleTweens \cup {RemovalTween(obj, fade, 0)}
  /\ removed' = removed \cup {obj}
  /\ UNCHANGED notObjectVars
  /\ UNCHANGED <<idCounter, onBalloonCreatedCallback, sceneMeshes, disposed,
                 isGrabbed, inflateDelays, created, callbackCount, clears,
                 lastSlot>>

\* onComplete of the pop tween: the shrink tween starts.
popComplete(t) ==
  /\ t \in scaleTweens
  /\ t.kind = "pop"
  /\ scaleTweens' = (scaleTweens \ {t}) \cup {[t EXCEPT !.kind = "shrink"]}
  /\ UNCHANGED notObjectVars
  /\ UNCHANGED <<objects, idCounter, onBalloonCreatedCallback, sceneMeshes,
                 disposed, isGrabbed, inflateDelays, created, callbackCount,
                 clears, removed, lastSlot>>

\* onComplete of the fade or shrink tween: the mesh leaves the scene, its
\* geometry and material are disposed and removeObject resolves; a clearAll
\* callback awaiting it resolves too.
removalComplete(t) ==
  /\ t \in scaleTweens
  /\ t.kind \in {"fade", "shrink"}
  /\ scaleTweens' = scaleTweens \ {t}
  /\ sceneMeshes' = sceneMeshes \ {t.obj}
  /\ disposed' = [disposed EXCEPT ![t.obj] = @ + 1]
  /\ \E cs \in {IF t.clear = 0 THEN clears
                ELSE [clears EXCEPT ![t.clear].waiting = @ \ {t.obj}]} :
       /\ objects' = Settle(objects, cs).objects
       /\ clears' = Settle(objects, cs).clears
  /\ UNCHANGED notObjectVars
  /\ UNCHANGED <<idCounter, onBalloonCreatedCallback, isGrabbed, inflateDelays,
                 created, callbackCount, removed, lastSlot>>

\* clearAll() up to its await: one delayed call per index of the list.
clearAll ==
  /\ Len(clears) < MaxClears
  /\ \E cs \in {Append(clears, [snapshot |-> objects, next |-> 1,
                                waiting |-> {}, done |-> FALSE])} :
       /\ objects' = Settle(objects, cs).objects
       /\ clears' = Settle(objects, cs).clears
  /\ UNCHANGED notObjectVars
  /\ UNCHANGED <<idCounter, onBalloonCreatedCallback, sceneMeshes, disposed,
                 isGrabbed, inflateDelays, scaleTweens, created, callbackCount,
                 removed, lastSlot>>

\* The delayed call of clearAll number k for its next index i: if
\* this.objects[i] exists now it is handed to removeObject(..., true),
\* whose promise the callback awaits.
clearAllCallback(k) ==
  /\ k \in 1..Len(clears)
  /\ clears[k].next <= Len(clears[k].snapshot)
  /\ \E i \in {clears[k].next} :
       IF i <= Len(objects)
         THEN /\ objects' = splice(objects, indexOf(objects, objects[i]))
              /\ scaleTweens' = scaleTweens \cup {RemovalTween(objects[i], TRUE, k)}
              /\ removed' = removed \cup {objects[i]}
              /\ lastSlot' = [obj |-> objects[i], clear |-> k, index |-> i]
              /\ clears' = [clears EXCEPT ![k].next = i + 1,
                                          ![k].waiting = @ \cup {objects[i]}]
         ELSE /\ \E cs \in {[clears EXCEPT ![k].next = i + 1]} :
                   /\ objects' = Settle(objects, cs).objects
                   /\ clears' = Settle(objects, cs).clears
              /\ UNCHANGED <<scaleTweens, removed, lastSlot>>
  /\ UNCHANGED notObjectVars
  /\ UNCHANGED <<idCounter, onBalloonCreatedCallback, sceneMeshes, disposed,
                 isGrabbed, inflateDelays, created, callbackCount>>

\* Timer and tween callbacks, which gsap runs on its own.
ObjectsInternal ==
  \/ \E obj \in BalloonIds : inflationDelayElapsed(obj)
  \/ \E obj \in BalloonIds : inflationComplete(obj)
  \/ \E t \in scaleTweens : popComplete(t)
  \/ \E t \in scaleTweens : removalComplete(t)
  \/ \E k \in 1..MaxClears : clearAllCallback(k)

NextObjects ==
  \/ onBalloonCreated
  \/ createFromStroke
  \/ \E obj \in BalloonIds : grabObject(obj)
  \/ \E obj \in BalloonIds : releaseObject(obj)
  \/ \E obj \in BalloonIds, fade \in BOOLEAN : removeObject(obj, fade)
  \/ clearAll
  \/ ObjectsInternal

SpecObjects == Init /\ [][NextObjects]_vars

\* The same with gsap's ticker running: a due timer or tween callback is
\* eventually run.
SpecObjectsFair == SpecObjects /\ WF_vars(ObjectsInternal)

(***************************************************************************)
(* HandTracker.  One action per call and per continuation of an await or   *)
(* animation frame.  Whether getUserMedia and play resolve or reject, and  *)
(* whether the video has data (readyState >= 2) at a frame, is the         *)
(* browser's choice.  A stream is named by the start call that obtained it.*)
(***************************************************************************)
\* The loops that still send frames or are scheduled to.
ActiveLoops == {s \in StartIds : pc[s] \in {"sending", "scheduled"}}

\* start(callback) up to its first await.
start ==
  /\ starts < MaxStarts
  /\ starts' = starts + 1
  /\ callback' = TRUE
  /\ lastCall' = "start"
  /\ pc' = [pc EXCEPT ![starts + 1] = IF isRunning THEN "returned" ELSE "camera"]
  /\ UNCHANGED <<isRunning, animationId, srcObject, stoppedStreams>>
  /\ UNCHANGED notTrackerVars

\* getUserMedia resolves: the stream becomes the video's source and start
\* awaits play().  Loading the new source rejects the play() promises still
\* pending on the video element.
getUserMediaResolved(s) ==
  /\ pc[s] = "camera"
  /\ srcObject' = s
  /\ pc' = [t \in StartIds |-> IF t = s THEN "play"
                                ELSE IF pc[t] = "play" THEN "failed"
                                ELSE pc[t]]
  /\ UNCHANGED <<callback, isRunning, animationId, stoppedStreams, starts, lastCall>>
  /\ UNCHANGED notTrackerVars

\* getUserMedia or play() rejects: start rethrows.
startRejected(s) ==
  /\ pc[s] \in {"camera", "play"}
  /\ pc' = [pc EXCEPT ![s] = "failed"]
  /\ UNCHANGED <<callback, isRunning, animationId, srcObject, stoppedStreams,
                 starts, lastCall>>
  /\ UNCHANGED notTrackerVars

\* play() resolves: isRunning is set and processFrame is called for the
\* first time; it sends the frame, or schedules itself when the video has
\* no data yet.  play() on a stream whose tracks were stopped is taken
\* never to resolve.
playResolved(s, ready) ==
  /\ pc[s] = "play"
  /\ s \notin stoppedStreams
  /\ isRunning' = TRUE
  /\ pc' = [pc EXCEPT ![s] = IF ready THEN "sending" ELSE "scheduled"]
  /\ animationId' = IF ready THEN animationId ELSE s
  /\ UNCHANGED <<callback, srcObject, stoppedStreams, starts, lastCall>>
  /\ UNCHANGED notTrackerVars

\* hands.send settles: processFrame schedules itself.
sendSettled(s) ==
  /\ pc[s] = "sending"
  /\ animationId' = s
  /\ pc' = [pc EXCEPT ![s] = "scheduled"]
  /\ UNCHANGED <<callback, isRunning, srcObject, stoppedStreams, starts, lastCall>>
  /\ UNCHANGED notTrackerVars

\* The animation frame fires: processFrame.
processFrame(s, ready) ==
  /\ pc[s] = "scheduled"
  /\ pc' = [pc EXCEPT ![s] = IF ~isRunning THEN "ended"
                             ELSE IF ready THEN "sending" ELSE "scheduled"]
  /\ animationId' = IF isRunning /\ ~ready THEN s ELSE animationId
  /\ UNCHANGED <<callback, isRunning, srcObject, stoppedStreams, starts, lastCall>>
  /\ UNCHANGED notTrackerVars

\* stop().
stop ==
  /\ isRunning' = FALSE
  /\ animationId' = 0
  /\ pc' = IF animationId # 0 /\ pc[animationId] = "scheduled"
             THEN [pc EXCEPT ![animationId] = "ended"]
             ELSE pc
  /\ stoppedStreams' = IF srcObject # 0 THEN stoppedStreams \cup {srcObject}
                                        ELSE stoppedStreams
  /\ lastCall' = "stop"
  /\ UNCHANGED <<callback, srcObject, starts>>
  /\ UNCHANGED notTrackerVars

\* Continuations the browser runs on its own.
TrackerInternal ==
  \/ \E s \in StartIds : getUserMediaResolved(s)
  \/ \E s \in StartIds : startRejected(s)
  \/ \E s \in StartIds, ready \in BOOLEAN : playResolved(s, ready)
  \/ \E s \in StartIds : sendSettled(s)
  \/ \E s \in StartIds, ready \in BOOLEAN : processFrame(s, ready)

NextTracker ==
  \/ start
  \/ stop
  \/ TrackerInternal

SpecTracker == Init /\ [][NextTracker]_vars

\* The same with the browser's event loop running: a settled promise's
\* continuation and a due animation frame are eventually run.
SpecTrackerFair == SpecTracker /\ WF_vars(TrackerInternal)

(***************************************************************************)
(* UserSession.  One action per call.                                      *)
(***************************************************************************)
\* What the call was.
Note(op) ==
  /\ lastOp' = op
  /\ onlySetUser' = (onlySetUser /\ op = "setUser")

\* notifyUserChange(user): every registered listener is passed user.
notifyUserChange(user) ==
  notified' = [i \in 1..onUserChangeCallbacks |-> <<user>>]

\* No listener is called.
NoNotify ==
  notified' = [i \in 1..onUserChangeCallbacks |-> <<>>]

\* The files handed to importData: an export of another browser, and a
\* file with a history filed under the key of user 1 that names user 2.
ImportFiles ==
  { [users |-> <<<<ForeignId, <<"b">>>>>>,
     histories |-> [k \in {ForeignId} |-> <<ForeignId, <<>>>>]],
    [users |-> Null,
     histories |-> [k \in {1} |-> <<2, <<>>>>]] }

\* UserSession constructor on a page load: the stored current user is read.
UserSession ==
  /\ lastOp # "construct"
  /\ currentUser' = getCurrentUser(currentUserItem)
  /\ onUserChangeCallbacks' = 0
  /\ notified' = <<>>
  /\ Note("construct")
  /\ UNCHANGED <<usersItem, currentUserItem, historyItems, nextUserId, nextBalloonId>>
  /\ UNCHANGED notSessionVars

\* onUserChange(callback).
onUserChange ==
  /\ onUserChangeCallbacks < MaxListeners
  /\ onUserChangeCallbacks' = onUserChangeCallbacks + 1
  /\ notified' = [i \in 1..(onUserChangeCallbacks + 1) |-> <<>>]
  /\ Note("onUserChange")
  /\ UNCHANGED <<usersItem, currentUserItem, historyItems, currentUser,
                 nextUserId, nextBalloonId>>
  /\ UNCHANGED notSessionVars

\* setUser(userName).
setUser(userName) ==
  \E found \in {getUserByName(usersItem, userName)} :
  \E user \in {IF found # NoUser THEN found
               ELSE [id |-> nextUserId, name |-> trim(userName)]} :
    /\ found = NoUser => nextUserId <= MaxUsers
    /\ usersItem' = IF found = NoUser THEN saveUser(usersItem, user) ELSE usersItem
    /\ nextUserId' = IF found = NoUser THEN nextUserId + 1 ELSE nextUserId
    /\ currentUser' = user
    /\ currentUserItem' = setCurrentUser(currentUserItem, user)
    /\ notifyUserChange(user)
    /\ Note("setUser")
    /\ UNCHANGED <<historyItems, onUserChangeCallbacks, nextBalloonId>>
    /\ UNCHANGED notSessionVars

\* logout().
logout ==
  /\ currentUser' = NoUser
  /\ currentUserItem' = setCurrentUser(currentUserItem, NoUser)
  /\ notifyUserChange(NoUser)
  /\ Note("logout")
  /\ UNCHANGED <<usersItem, historyItems, onUserChangeCallbacks, nextUserId,
                 nextBalloonId>>
  /\ UNCHANGED notSessionVars

\* saveBalloon(stroke, color).
saveBalloon ==
  /\ nextBalloonId <= MaxSaved
  /\ IF currentUser = NoUser
       THEN UNCHANGED <<historyItems, nextBalloonId>>
       ELSE /\ historyItems' = addBalloonToHistory(historyItems, currentUser.id,
                                                   nextBalloonId)
            /\ nextBalloonId' = nextBalloonId + 1
  /\ NoNotify
  /\ Note("saveBalloon")
  /\ UNCHANGED <<usersItem, currentUserItem, currentUser, onUserChangeCallbacks,
                 nextUserId>>
  /\ UNCHANGED notSessionVars

\* clearHistory().
clearHistory ==
  /\ historyItems' = IF currentUser = NoUser THEN historyItems
                     ELSE clearUserHistory(historyItems, currentUser.id)
  /\ NoNotify
  /\ Note("clearHistory")
  /\ UNCHANGED <<usersItem, currentUserItem, currentUser, onUserChangeCallbacks,
                 nextUserId, nextBalloonId>>
  /\ UNCHANGED notSessionVars

\* importData(jsonData) with well-formed JSON.
importData(data) ==
  /\ usersItem' = IF data.users # Null THEN data.users ELSE usersItem
  /\ historyItems' = [k \in HistoryKeys |->
                        IF k \in DOMAIN data.histories THEN data.histories[k]
                        ELSE historyItems[k]]
  /\ NoNotify
  /\ Note("importData")
  /\ UNCHANGED <<currentUserItem, currentUser, onUserChangeCallbacks,
                 nextUserId, nextBalloonId>>
  /\ UNCHANGED notSessionVars

\* storageManager.saveUser(user) called directly, with the id of a user
\* generated earlier.
saveUserCall(user) ==
  /\ user.id < nextUserId
  /\ usersItem' = saveUser(usersItem, user)
  /\ NoNotify
  /\ Note("saveUser")
  /\ UNCHANGED <<currentUserItem, historyItems, currentUser,
                 onUserChangeCallbacks, nextUserId, nextBalloonId>>
  /\ UNCHANGED notSessionVars

NextSession ==
  \/ UserSession
  \/ onUserChange
  \/ \E userName \in Names : setUser(userName)
  \/ logout
  \/ saveBalloon
  \/ clearHistory
  \/ \E data \in ImportFiles : importData(data)

SpecSession == Init /\ [][NextSession]_vars

\* The names given to a direct saveUser call.
SavedNames == {<<"a">>, <<"b">>}

\* The user list under direct saveUser calls, between the setUser calls
\* that generate ids and the imports that replace the list.
NextStorage ==
  \/ \E id \in 1..MaxUsers, name \in SavedNames :
       saveUserCall([id |-> id, name |-> name])
  \/ \E userName \in Names : setUser(userName)
  \/ \E data \in ImportFiles : importData(data)

SpecStorage == Init /\ [][NextStorage]_vars

(***************************************************************************)
(* Properties.                                                             *)
(***************************************************************************)
WithinRadius(p, q) ==
  distanceSq(p, q) <= PALM_STABILITY_THRESHOLD * PALM_STABILITY_THRESHOLD

\* C1: a call with an absent frame right after a call that reported a label
\* L other than none returns current = none and previous = L.
C1_AbsentAfterLabel ==
  (calls >= 2 /\ ~sawHand /\ prevOut.current # "none")
    => (out.current = "none" /\ out.previous = prevOut.current)

\* C2: for two consecutive calls, if the later current label differs from
\* the earlier one, the later previous label is the earlier current label.
C2_ChangeShiftsCurrent ==
  (calls >= 2 /\ out.current # prevOut.current)
    => out.previous = prevOut.current

\* C3: two consecutive calls that return the same current label return the
\* same previous label.
C3_PreviousKeptWithoutChange ==
  (calls >= 2 /\ out.current = prevOut.current)
    => out.previous = prevOut.previous

\* C4: timestamps never decrease here; two consecutive calls that return the
\* same current label return durations that do not decrease.
C4_DurationMonotone ==
  (calls >= 2 /\ out.current = prevOut.current)
    => out.duration >= prevOut.duration

\* C5: the call on which the returned current label changes returns
\* duration 0, and every later call of the same run returns its timestamp
\* minus the timestamp of that label-changing call.
C5_DurationSinceChange ==
  (calls >= 2 /\ runByChange) => out.duration = clock - runStart

\* C6: a call with an absent frame returns label none, velocity (0,0) and a
\* duration equal to the time since the first call of the current unbroken
\* run of calls reporting none.
C6_AbsentState ==
  (calls >= 1 /\ ~sawHand)
    => /\ out.current = "none"
       /\ out.velocity = Zero
       /\ out.confidence = 1
       /\ out.duration = clock - runStart

\* C7: palm is reported only on a call such that it and the two calls right
\* before it all carried a frame passing the open-palm finger test.
C7_PalmNeedsThreeOpenCalls ==
  out.current = "palm"
    => (Len(recent) = 3 /\ \A i \in 1..3 : recent[i].open)

\* C8: three consecutive calls with open-hand frames, each palm centre within
\* the stability radius of the first of the three, with neither swipe nor
\* pinch firing on them, make the third call return palm.
ThreeSteadyOpenCalls ==
  /\ Len(recent) = 3
  /\ \A i \in 1..3 :
       /\ recent[i].open
       /\ recent[i].clean
       /\ WithinRadius(recent[i].c, recent[1].c)

C8_SteadyOpenHandIsPalm ==
  ThreeSteadyOpenCalls => out.current = "palm"

\* Witness of C8: the three calls happened, the hand moved between them
\* (inside the radius) and older samples far away are still in the history.
C8_Witness ==
  /\ ThreeSteadyOpenCalls
  /\ recent[2].c # recent[1].c
  /\ Len(palmHistory) > 3
  /\ ~WithinRadius(palmHistory[1], recent[1].c)
  /\ out.current = "palm"

\* C9: on a hand frame the returned label is that of the first rule, in the
\* order swipe, pinch, fist, palm, draw, whose predicate holds on the frame,
\* and none when no predicate holds.
C9_FirstMatchWins ==
  sawHand =>
    LET swipe == SwipeCheck(out.velocity)
        pinch == PinchCheck(lastLandmarks)
        fist  == isFist(lastLandmarks)
        palm  == isOpenPalm(lastLandmarks) /\ isPalmStable(palmHistory)
        draw  == isPointingIndex(lastLandmarks)
    IN  /\ swipe => out.current = "swipe"
        /\ (~swipe /\ pinch) => out.current = "pinch"
        /\ (~swipe /\ ~pinch /\ fist) => out.current = "fist"
        /\ (~swipe /\ ~pinch /\ ~fist /\ palm) => out.current = "palm"
        /\ (~swipe /\ ~pinch /\ ~fist /\ ~palm /\ draw) => out.current = "draw"
        /\ (~swipe /\ ~pinch /\ ~fist /\ ~palm /\ ~draw) => out.current = "none"

\* Witness of C9: a frame on which both the pinch and the fist predicate
\* hold, reported as pinch.
C9_Witness ==
  /\ sawHand
  /\ ~SwipeCheck(out.velocity)
  /\ PinchCheck(lastLandmarks)
  /\ isFist(lastLandmarks)
  /\ out.current = "pinch"

\* C10: a hand frame whose velocity has a horizontal magnitude above the
\* swipe threshold and above 1.5 times its vertical magnitude is reported as
\* swipe, whatever the finger pose.
FastHorizontal(velocity) ==
  /\ Abs(velocity[1]) > SWIPE_VELOCITY
  /\ 2 * Abs(velocity[1]) > 3 * Abs(velocity[2])

C10_FastHorizontalIsSwipe ==
  (sawHand /\ FastHorizontal(out.velocity)) => out.current = "swipe"

\* Witness of C10: a pinching hand moving fast sideways, reported as swipe.
C10_Witness ==
  /\ sawHand
  /\ FastHorizontal(out.velocity)
  /\ PinchCheck(lastLandmarks)
  /\ out.current = "swipe"

\* C11: a hand frame on which the swipe check fails and THUMB_TIP lies
\* closer to INDEX_TIP than the pinch threshold is reported as pinch,
\* whatever the other landmarks and the palm history are.
ThumbOnIndexTip(landmarks) ==
  distanceSq(landmarks[THUMB_TIP + 1], landmarks[INDEX_TIP + 1])
    < PINCH_THRESHOLD * PINCH_THRESHOLD

C11_CloseTipsArePinch ==
  (sawHand /\ ~SwipeCheck(out.velocity) /\ ThumbOnIndexTip(lastLandmarks))
    => out.current = "pinch"

\* Witness of C11: a pinch reported while the hand is moving (below the
\* swipe speed) and the palm history still holds samples.
C11_Witness ==
  /\ sawHand
  /\ ~SwipeCheck(out.velocity)
  /\ out.velocity # Zero
  /\ ThumbOnIndexTip(lastLandmarks)
  /\ Len(palmHistory) >= 2
  /\ out.current = "pinch"

\* C12: the first call after construction returns velocity (0,0); a call
\* that finds no last frame, or computes dt = 0, returns velocity (0,0) and
\* leaves the velocity-sample history as it was.
C12_NoFrameOrZeroDt ==
  /\ calls = 1 => out.velocity = Zero
  /\ (calls >= 1 /\ (~pre.had \/ pre.dt = 0))
       => (out.velocity = Zero /\ velocityHistory = pre.vh)

\* Witness of C12: a hand frame in the same millisecond as the call before
\* it, the palm at another place than in the last frame, samples on record.
C12_Witness ==
  /\ calls >= 2
  /\ sawHand
  /\ pre.had
  /\ pre.dt = 0
  /\ pre.vh # <<>>
  /\ getPalmCenter(lastLandmarks) # pre.palm
  /\ out.velocity = Zero
  /\ velocityHistory = pre.vh

\* C13: every call updates the last-frame record, an absent frame being
\* recorded as absent; so the first hand frame after one or more absent
\* frames returns velocity (0,0) and records no velocity sample.
C13_GapResetsLastFrame ==
  /\ (calls >= 1 /\ ~sawHand) => lastLandmarks = NoHand
  /\ (calls >= 2 /\ sawHand /\ ~recent[Len(recent) - 1].hand)
       => (out.velocity = Zero /\ velocityHistory = pre.vh)

\* C14: a hand frame that finds a last frame and dt > 0 appends the raw
\* sample (palm_now - palm_prev) / dt to a FIFO of capacity 2, the oldest
\* sample leaving when it is full, and returns the mean of the samples then
\* held: the first sample as it is, later the mean of the two newest.
RawSample ==
  LET palmNow == getPalmCenter(lastLandmarks)
  IN  << ((palmNow[1] - pre.palm[1]) * 1000) \div pre.dt,
         ((palmNow[2] - pre.palm[2]) * 1000) \div pre.dt >>

C14_VelocityIsMeanOfFifo ==
  (sawHand /\ pre.had /\ pre.dt > 0) =>
    /\ velocityHistory = IF Len(pre.vh) = 2 THEN <<pre.vh[2], RawSample>>
                         ELSE Append(pre.vh, RawSample)
    /\ Len(pre.vh) = 0 => out.velocity = RawSample
    /\ Len(pre.vh) >= 1 =>
         /\ 2 * out.velocity[1] = pre.vh[Len(pre.vh)][1] + RawSample[1]
         /\ 2 * out.velocity[2] = pre.vh[Len(pre.vh)][2] + RawSample[2]

\* Witness of C14: a third sample arrives, all three samples differ, the
\* oldest leaves.
C14_Witness ==
  /\ sawHand
  /\ pre.had
  /\ pre.dt > 0
  /\ Len(pre.vh) = 2
  /\ pre.vh[1] # pre.vh[2]
  /\ RawSample # pre.vh[1]
  /\ RawSample # pre.vh[2]
  /\ velocityHistory = <<pre.vh[2], RawSample>>

\* C16: in every reachable state the palm-position history holds at most 6
\* entries and the velocity-sample history at most 2.
C16_HistoriesBounded ==
  /\ Len(palmHistory) <= 6
  /\ Len(velocityHistory) <= 2

\* Witness of C16: after seven calls or more both histories are full, and
\* the palm history runs from a sample taken aside to one taken at rest.
C16_Witness ==
  /\ calls >= 7
  /\ Len(palmHistory) = 6
  /\ Len(velocityHistory) = 2
  /\ palmHistory[1] = <<1, 6>>
  /\ palmHistory[6] = <<0, 6>>

\* C17: after every call on which the open-palm pose is not detected (an
\* absent frame, or a hand frame failing the five-finger open-palm test,
\* whatever it is classified as) the palm-position history is empty; hence
\* the history grows only on frames that pass the test.
C17_HistoryEmptyUnlessOpen ==
  (calls >= 1 /\ (~sawHand \/ ~isOpenPalm(lastLandmarks)))
    => palmHistory = <<>>

\* C18: the palm-stability test holds exactly when the palm history holds at
\* least 3 samples and each of the 3 newest lies within the stability radius
\* of the oldest of those 3; older samples play no part.
C18_StableIffLastThreeClose ==
  LET n == Len(palmHistory)
  IN  isPalmStable(palmHistory)
        <=> (n >= 3 /\ \A i \in (n - 2)..n :
                         WithinRadius(palmHistory[i], palmHistory[n - 2]))

\* Witness of C18: four samples, the oldest far from the other three, and
\* the test holds.
C18_Witness ==
  /\ Len(palmHistory) = 4
  /\ ~WithinRadius(palmHistory[1], palmHistory[2])
  /\ palmHistory[3] # palmHistory[2]
  /\ isPalmStable(palmHistory)

\* C18, the other way: four samples, the three oldest close together, the
\* newest far away, and the test fails.
C18_WitnessUnstable ==
  /\ Len(palmHistory) = 4
  /\ WithinRadius(palmHistory[1], palmHistory[2])
  /\ WithinRadius(palmHistory[1], palmHistory[3])
  /\ ~WithinRadius(palmHistory[2], palmHistory[4])
  /\ ~isPalmStable(palmHistory)

C20_UnconfirmedOpenIsNone ==
  sawHand =>
    /\ (/\ isOpenPalm(lastLandmarks)
        /\ ~SwipeCheck(out.velocity)
        /\ ~PinchCheck(lastLandmarks)
        /\ out.current # "palm") => out.current = "none"
    /\ ~(isOpenPalm(lastLandmarks) /\ isFist(lastLandmarks))
    /\ ~(isOpenPalm(lastLandmarks) /\ isPointingIndex(lastLandmarks))
    /\ ~(isFist(lastLandmarks) /\ isPointingIndex(lastLandmarks))

\* Witness of C20: an open hand with three samples or more on record that
\* is not steady, reported as none.
C20_Witness ==
  /\ sawHand
  /\ isOpenPalm(lastLandmarks)
  /\ ~SwipeCheck(out.velocity)
  /\ ~PinchCheck(lastLandmarks)
  /\ Len(palmHistory) >= 3
  /\ ~isPalmStable(palmHistory)
  /\ out.current = "none"

\* C21: once a clearAll call has resolved, every balloon that was in the
\* list when it was called has been taken out by removeObject; none was
\* merely dropped from the list.
C21_ClearAllRemovesEvery ==
  \A k \in 1..Len(clears) :
    clears[k].done =>
      \A i \in 1..Len(clears[k].snapshot) : clears[k].snapshot[i] \in removed

\* C24: with the callback registered, every createFromStroke call that is
\* pending eventually resolves with the callback invoked exactly once for
\* its balloon, and the callback is never invoked twice for a balloon.
C24_CreateResolvesOnce ==
  \A b \in BalloonIds :
    /\ [](callbackCount[b] <= 1)
    /\ []((b < idCounter /\ b \notin created /\ onBalloonCreatedCallback)
            => <>(b \in created /\ callbackCount[b] = 1))

\* C29, first two parts: a balloon removeObject has taken is out of the
\* list while its removal tween still runs, and no mesh is disposed twice.
RemovedAtOnceDisposedOnce ==
  /\ \A t \in scaleTweens : t.kind # "inflate" => ~InList(t.obj, objects)
  /\ \A b \in removed : ~InList(b, objects)
  /\ \A b \in BalloonIds : disposed[b] <= 1

\* C29: removeObject takes the balloon out of the list at once, no mesh is
\* disposed twice, and a clearAll callback never removes a different
\* balloon in place of one already removed: whatever it takes was in the
\* list when clearAll was called.
C29_RemoveIdempotent ==
  /\ RemovedAtOnceDisposedOnce
  /\ lastSlot.clear # 0 => InList(lastSlot.obj, clears[lastSlot.clear].snapshot)

\* C22: under any interleaving of start and stop calls at most one
\* frame-processing loop is active: never do two loops have a frame at the
\* estimator at the same time.
C22_AtMostOneLoop ==
  \A s \in StartIds, t \in StartIds :
    (pc[s] = "sending" /\ pc[t] = "sending") => s = t

\* C23: if from some point on the last call made is stop (no start follows
\* it), then from some point on the tracker is inactive: isActive() is
\* false and no loop sends frames or is scheduled.
C23_StopEventuallyInactive ==
  <>[](lastCall = "stop") => <>[](~isRunning /\ ActiveLoops = {})

\* C25: after any sequence of setUser calls no two stored users have the
\* same name compared case-insensitively.
C25_NoTwoUsersSameName ==
  onlySetUser =>
    \A i \in 1..Len(getAllUsers(usersItem)), j \in 1..Len(getAllUsers(usersItem)) :
      toLowerCase(getAllUsers(usersItem)[i].name)
        = toLowerCase(getAllUsers(usersItem)[j].name) => i = j

\* C26: after every call the session's current user is the stored current
\* user, and a setUser or logout call has passed the new current user
\* (null on logout) to every registered listener exactly once.
C26_CurrentUserInSync ==
  /\ currentUser = getCurrentUser(currentUserItem)
  /\ lastOp = "logout" => currentUser = NoUser
  /\ lastOp \in {"setUser", "logout"} =>
       /\ Len(notified) = onUserChangeCallbacks
       /\ \A i \in 1..onUserChangeCallbacks : notified[i] = <<currentUser>>

\* Witness of C26: a logout with two listeners registered, after users and
\* histories were stored.
C26_Witness ==
  /\ lastOp = "logout"
  /\ onUserChangeCallbacks = 2
  /\ Len(getAllUsers(usersItem)) >= 2
  /\ \E k \in HistoryKeys : historyItems[k] # Null
  /\ currentUserItem = Null
  /\ notified = <<<<NoUser>>, <<NoUser>>>>

\* C27: saveBalloon and clearHistory leave the user list and the current
\* user alone; with no user logged in they leave every history alone; with
\* a user logged in they leave every other user's history alone, and that
\* user's history has the new balloon appended (saveBalloon) or is empty
\* (clearHistory).
C27_HistoryCallsFrame ==
  [][(saveBalloon \/ clearHistory) =>
       /\ usersItem' = usersItem
       /\ currentUserItem' = currentUserItem
       /\ currentUser' = currentUser
       /\ currentUser = NoUser => historyItems' = historyItems
       /\ currentUser # NoUser =>
            /\ \A k \in HistoryKeys \ {currentUser.id} :
                 historyItems'[k] = historyItems[k]
            /\ getUserHistory(historyItems', currentUser.id).balloons =
                 IF saveBalloon
                   THEN Append(getUserHistory(historyItems, currentUser.id).balloons,
                               nextBalloonId)
                   ELSE <<>>]_vars

UniqueIds(users) ==
  \A i \in 1..Len(users), j \in 1..Len(users) : users[i].id = users[j].id => i = j

\* What C28 says of one saveUser(user) call that turns item old into new.
Upserted(old, new, user) ==
  UniqueIds(getAllUsers(old)) =>
    /\ UniqueIds(getAllUsers(new))
    /\ Len(getAllUsers(new)) =
         Len(getAllUsers(old)) + (IF getUserById(old, user.id) = NoUser THEN 1 ELSE 0)
    /\ getUserById(new, user.id) = user
    /\ \A i \in 1..Len(getAllUsers(old)) :
         getAllUsers(old)[i].id # user.id => getAllUsers(new)[i] = getAllUsers(old)[i]

\* C28: saveUser is an upsert by id, whether called directly or by setUser
\* for a new user: unique ids stay unique, the list grows by one only when
\* the id was absent, getUserById returns the saved user and every other
\* stored user is unchanged.
C28_SaveUserUpserts ==
  [][/\ \A id \in 1..MaxUsers, name \in SavedNames :
          saveUserCall([id |-> id, name |-> name])
            => Upserted(usersItem, usersItem', [id |-> id, name |-> name])
     /\ \A userName \in Names :
          (setUser(userName) /\ getUserByName(usersItem, userName) = NoUser)
            => Upserted(usersItem, usersItem',
                        [id |-> nextUserId, name |-> trim(userName)])]_vars

\* Witness of C28: a direct saveUser call has renamed the first of two
\* stored users.
C28_Witness ==
  /\ lastOp = "saveUser"
  /\ Len(getAllUsers(usersItem)) = 2
  /\ UniqueIds(getAllUsers(usersItem))
  /\ getAllUsers(usersItem)[1] = [id |-> 1, name |-> <<"b">>]
  /\ getAllUsers(usersItem)[2].name = <<"b">>

====
